---------------------------- MODULE Spec2Model ----------------------------
(***************************************************************************)
(* Model of the tourist-spot congestion / parking difficulty backend       *)
(* (src/app.py): the /api/status pipeline (get_realtime_features,          *)
(* forecast_30min, score_difficulty, level_from_score), the /api/areas     *)
(* search, the module-level random generator and the KST wall clock.       *)
(*                                                                         *)
(* Python floats are modelled in fixed point: the real r is the integer    *)
(* r * Scale.  A string that is searched is a sequence of characters, an   *)
(* ASCII character being itself and any other its code point ("U+C804").   *)
(***************************************************************************)
EXTENDS Integers, Sequences, FiniteSets, Bags, TLC

VARIABLES
  AREAS,      \* the module-level catalog dict, in insertion order
  clock,      \* the KST wall clock, in 5-minute buckets since Monday 00:00
  ticks,      \* 5-minute boundaries crossed since the process started
  rng,        \* state of the module-level random generator
  memo,       \* the outputs a seeded generator has produced so far, per seed
  seeder,     \* the request whose random.seed(hash(..)) set the current state
  running,    \* the task the event loop is running (0: none)
  pc,         \* per request: position in get_status
  loc,        \* per request: the handler's local variables
  resp,       \* per request: the response payload
  returned,   \* bag of the (area, instant, pair) get_realtime_features returned
  served,     \* number of requests accepted so far
  probe       \* last direct call of a pure function: its arguments and result

vars == <<AREAS, clock, ticks, rng, memo, seeder, running, pc, loc, resp, returned,
          served, probe>>

-----------------------------------------------------------------------------
(* Bounds of the model *)

\* [0,1] is sampled at the points i / Grid
Grid == 20
\* random.random() is sampled at the points u / NoiseSteps, both ends included
NoiseSteps == 1
\* longest search term
MaxTermLen == 2
\* request slots handled concurrently
NReq == 2
\* requests accepted in one run
MaxRequests == 2
\* 5-minute boundaries the clock crosses in one run
MaxTicks == 1

\* fixed-point unit: the float 1.0
Scale == 10000

GridVals == { (i * Scale) \div Grid : i \in 0..Grid }
Units == 0..NoiseSteps
Hours == 0..23

-----------------------------------------------------------------------------
(* AREAS, app.py 42-171 *)

Catalog ==
  <<
  [ id |-> "jeonju-hanok",
      name |-> <<"J", "e", "o", "n", "j", "u", " ", "H", "a", "n", "o", "k", " ", "V", "i", "l", "l", "a", "g", "e">>,
      name_kr |-> <<"U+C804", "U+C8FC", " ", "U+D55C", "U+C625", "U+B9C8", "U+C744">>,
      region |-> <<"U+C804", "U+C8FC", "U+C2DC">>,
      category |-> <<"U+C804", "U+D1B5", "U+B9C8", "U+C744">>,
      base_popularity |-> 8500 ],
  [ id |-> "jeonju-nambu",
      name |-> <<"J", "e", "o", "n", "j", "u", " ", "N", "a", "m", "b", "u", " ", "M", "a", "r", "k", "e", "t">>,
      name_kr |-> <<"U+B0A8", "U+BD80", "U+C2DC", "U+C7A5">>,
      region |-> <<"U+C804", "U+C8FC", "U+C2DC">>,
      category |-> <<"U+C804", "U+D1B5", "U+C2DC", "U+C7A5">>,
      base_popularity |-> 7000 ],
  [ id |-> "jeonju-gaeksa",
      name |-> <<"J", "e", "o", "n", "j", "u", " ", "G", "a", "e", "k", "s", "a">>,
      name_kr |-> <<"U+C804", "U+C8FC", "U+AC1D", "U+C0AC">>,
      region |-> <<"U+C804", "U+C8FC", "U+C2DC">>,
      category |-> <<"U+BB38", "U+D654", "U+C720", "U+C801">>,
      base_popularity |-> 5000 ],
  [ id |-> "jeonju-omokdae",
      name |-> <<"O", "m", "o", "k", "d", "a", "e", " ", "P", "a", "v", "i", "l", "i", "o", "n">>,
      name_kr |-> <<"U+C624", "U+BAA9", "U+B300">>,
      region |-> <<"U+C804", "U+C8FC", "U+C2DC">>,
      category |-> <<"U+C804", "U+B9DD", "U+B300">>,
      base_popularity |-> 6000 ],
  [ id |-> "jeonju-gyeonggijeon",
      name |-> <<"G", "y", "e", "o", "n", "g", "g", "i", "j", "e", "o", "n", " ", "S", "h", "r", "i", "n", "e">>,
      name_kr |-> <<"U+ACBD", "U+AE30", "U+C804">>,
      region |-> <<"U+C804", "U+C8FC", "U+C2DC">>,
      category |-> <<"U+BB38", "U+D654", "U+C720", "U+C801">>,
      base_popularity |-> 7500 ],
  [ id |-> "jeonju-pungnammun",
      name |-> <<"P", "u", "n", "g", "n", "a", "m", "m", "u", "n", " ", "G", "a", "t", "e">>,
      name_kr |-> <<"U+D48D", "U+B0A8", "U+BB38">>,
      region |-> <<"U+C804", "U+C8FC", "U+C2DC">>,
      category |-> <<"U+BB38", "U+D654", "U+C720", "U+C801">>,
      base_popularity |-> 5500 ],
  [ id |-> "jeonju-deokjin",
      name |-> <<"D", "e", "o", "k", "j", "i", "n", " ", "P", "a", "r", "k">>,
      name_kr |-> <<"U+B355", "U+C9C4", "U+ACF5", "U+C6D0">>,
      region |-> <<"U+C804", "U+C8FC", "U+C2DC">>,
      category |-> <<"U+ACF5", "U+C6D0">>,
      base_popularity |-> 6000 ],
  [ id |-> "jeonbuk-maisan",
      name |-> <<"M", "a", "i", "s", "a", "n", " ", "M", "o", "u", "n", "t", "a", "i", "n">>,
      name_kr |-> <<"U+B9C8", "U+C774", "U+C0B0">>,
      region |-> <<"U+C9C4", "U+C548", "U+AD70">>,
      category |-> <<"U+C790", "U+C5F0", "U+ACBD", "U+AD00">>,
      base_popularity |-> 7000 ],
  [ id |-> "jeonbuk-naejangsan",
      name |-> <<"N", "a", "e", "j", "a", "n", "g", "s", "a", "n", " ", "N", "a", "t", "i", "o", "n", "a", "l", " ", "P", "a", "r", "k">>,
      name_kr |-> <<"U+B0B4", "U+C7A5", "U+C0B0">>,
      region |-> <<"U+C815", "U+C74D", "U+C2DC">>,
      category |-> <<"U+AD6D", "U+B9BD", "U+ACF5", "U+C6D0">>,
      base_popularity |-> 7500 ],
  [ id |-> "jeonbuk-byeonsan",
      name |-> <<"B", "y", "e", "o", "n", "s", "a", "n", "b", "a", "n", "d", "o", " ", "N", "a", "t", "i", "o", "n", "a", "l", " ", "P", "a", "r", "k">>,
      name_kr |-> <<"U+BCC0", "U+C0B0", "U+BC18", "U+B3C4">>,
      region |-> <<"U+BD80", "U+C548", "U+AD70">>,
      category |-> <<"U+AD6D", "U+B9BD", "U+ACF5", "U+C6D0">>,
      base_popularity |-> 6500 ],
  [ id |-> "jeonbuk-gunsan",
      name |-> <<"G", "u", "n", "s", "a", "n", " ", "M", "o", "d", "e", "r", "n", " ", "H", "i", "s", "t", "o", "r", "y", " ", "M", "u", "s", "e", "u", "m">>,
      name_kr |-> <<"U+AD70", "U+C0B0", " ", "U+ADFC", "U+B300", "U+C5ED", "U+C0AC", "U+BC15", "U+BB3C", "U+AD00">>,
      region |-> <<"U+AD70", "U+C0B0", "U+C2DC">>,
      category |-> <<"U+BC15", "U+BB3C", "U+AD00">>,
      base_popularity |-> 6000 ],
  [ id |-> "jeonbuk-imsil",
      name |-> <<"I", "m", "s", "i", "l", " ", "C", "h", "e", "e", "s", "e", " ", "V", "i", "l", "l", "a", "g", "e">>,
      name_kr |-> <<"U+C784", "U+C2E4", "U+CE58", "U+C988", "U+B9C8", "U+C744">>,
      region |-> <<"U+C784", "U+C2E4", "U+AD70">>,
      category |-> <<"U+CCB4", "U+D5D8", "U+B9C8", "U+C744">>,
      base_popularity |-> 5500 ],
  [ id |-> "jeonbuk-gochang",
      name |-> <<"G", "o", "c", "h", "a", "n", "g", " ", "D", "o", "l", "m", "e", "n", " ", "S", "i", "t", "e">>,
      name_kr |-> <<"U+ACE0", "U+CC3D", " ", "U+ACE0", "U+C778", "U+B3CC">>,
      region |-> <<"U+ACE0", "U+CC3D", "U+AD70">>,
      category |-> <<"U+C138", "U+ACC4", "U+C720", "U+C0B0">>,
      base_popularity |-> 5000 ],
  [ id |-> "jeonbuk-sunchang",
      name |-> <<"S", "u", "n", "c", "h", "a", "n", "g", " ", "G", "o", "c", "h", "u", "j", "a", "n", "g", " ", "V", "i", "l", "l", "a", "g", "e">>,
      name_kr |-> <<"U+C21C", "U+CC3D", " ", "U+ACE0", "U+CD94", "U+C7A5", "U+B9C8", "U+C744">>,
      region |-> <<"U+C21C", "U+CC3D", "U+AD70">>,
      category |-> <<"U+CCB4", "U+D5D8", "U+B9C8", "U+C744">>,
      base_popularity |-> 4500 ]
  >>

AreaIds(areas) == [ i \in 1..Len(areas) |-> areas[i].id ]

\* the lookup of line 201 used at line 373: an unknown id falls back to the
\* entry of "jeonju-hanok"
LookupWithDefault(areas, area_id) ==
  IF \E i \in 1..Len(areas) : areas[i].id = area_id
  THEN CHOOSE i \in 1..Len(areas) : areas[i].id = area_id
  ELSE CHOOSE i \in 1..Len(areas) : areas[i].id = "jeonju-hanok"

\* dict.get(area_id): the entry (its position), or None (0)
Lookup(areas, area_id) ==
  IF \E i \in 1..Len(areas) : areas[i].id = area_id
  THEN CHOOSE i \in 1..Len(areas) : areas[i].id = area_id
  ELSE 0

-----------------------------------------------------------------------------
(* Arithmetic helpers *)

Min(a, b) == IF a <= b THEN a ELSE b
Max(a, b) == IF a >= b THEN a ELSE b

\* max(0.0, min(1.0, x))
Clamp01(x) == Max(0, Min(Scale, x))

\* random.uniform(a, b) = a + (b - a) * random(), random() = u / NoiseSteps
Uniform(a, b, u) == a + ((b - a) * u) \div NoiseSteps

\* Python 3 round(): a / b to the nearest integer, ties to even (a >= 0, b > 0)
RoundHalfEven(a, b) ==
  LET q == a \div b
      r == a % b
  IN  IF 2 * r < b THEN q
      ELSE IF 2 * r > b THEN q + 1
      ELSE IF q % 2 = 0 THEN q ELSE q + 1

\* e^z for 0 <= z <= 1/2 by its Taylor series
RECURSIVE ExpSeries(_, _, _, _)
ExpSeries(z, k, term, sum) ==
  IF k > 8 THEN sum
  ELSE LET t == (term * z) \div (Scale * k)
       IN  ExpSeries(z, k + 1, t, sum + t)

\* e^y for y >= 0: e^(y/8) squared three times
ExpPos(y) ==
  LET r1 == ExpSeries(y \div 8, 1, Scale, Scale)
      r2 == (r1 * r1) \div Scale
      r4 == (r2 * r2) \div Scale
  IN  (r4 * (r4 \div 10)) \div (Scale \div 10)

\* math.exp(y)
Exp(y) == IF y >= 0 THEN ExpPos(y) ELSE (Scale * Scale) \div ExpPos(-y)

-----------------------------------------------------------------------------
(* score_difficulty, app.py 270-291 *)

\* the logistic transform left out: round(sigmoid_input * 100)
score_difficulty_unsquashed(traffic_index, parking_pressure) ==
  LET combined == (traffic_index * 6 + parking_pressure * 4) \div 10
      sigmoid_input == (combined - Scale \div 2) * 8
  IN  (sigmoid_input * 100) \div Scale

\* the sign of the exponent slipped: 1 / (1 + exp(sigmoid_input))
score_difficulty_flipped(traffic_index, parking_pressure) ==
  LET combined == (traffic_index * 6 + parking_pressure * 4) \div 10
      sigmoid_input == (combined - Scale \div 2) * 8
  IN  RoundHalfEven(100 * Scale, Scale + Exp(sigmoid_input))

score_difficulty(traffic_index, parking_pressure) ==
  LET combined == (traffic_index * 6 + parking_pressure * 4) \div 10
      sigmoid_input == (combined - Scale \div 2) * 8
      \* sigmoid_value = 1 / (1 + e), kept as the fraction Scale / (Scale + e)
      e == Exp(-sigmoid_input)
  IN  RoundHalfEven(100 * Scale, Scale + e)

-----------------------------------------------------------------------------
(* level_from_score, app.py 294-311 *)

\* each comparison written <= instead of <
level_from_score_inclusive(score) ==
  IF score <= 30 THEN "EASY"
  ELSE IF score <= 55 THEN "MODERATE"
  ELSE IF score <= 75 THEN "HARD"
  ELSE "VERY_HARD"

level_from_score(score) ==
  IF score < 30 THEN "EASY"
  ELSE IF score < 55 THEN "MODERATE"
  ELSE IF score < 75 THEN "HARD"
  ELSE "VERY_HARD"

Levels == {"EASY", "MODERATE", "HARD", "VERY_HARD"}

-----------------------------------------------------------------------------
(* forecast_30min, app.py 236-267 *)

Trend(hour) ==
  IF 11 <= hour /\ hour < 13 THEN 1000
  ELSE IF 14 <= hour /\ hour < 17 THEN 500
  ELSE IF 17 <= hour /\ hour < 19 THEN -1000
  ELSE 0

\* the final clamp left out
forecast_30min_unclamped(traffic_index, hour, u) ==
  traffic_index + Trend(hour) + Uniform(-500, 500, u)

\* hour: the hour of the function's own clock reading; u: its random() draw
forecast_30min(traffic_index, hour, u) ==
  LET noise == Uniform(-500, 500, u)
      forecast == traffic_index + Trend(hour) + noise
  IN  Clamp01(forecast)

-----------------------------------------------------------------------------
(* get_status, app.py 388: the parking pressure 30 minutes ahead *)

\* the decay factor 0.9 left out
parking_pressure_30m_undamped(parking_pressure_now, u) ==
  parking_pressure_now + Uniform(0, 1000, u)

parking_pressure_30m(parking_pressure_now, u) ==
  (parking_pressure_now * 9) \div 10 + Uniform(0, 1000, u)

-----------------------------------------------------------------------------
(* get_realtime_features, app.py 179-233 *)

\* KST civil time of an instant counted in 5-minute buckets from Monday 00:00
HourOf(t) == (t \div 12) % 24
WeekdayOf(t) == (t \div 288) % 7
DayOf(t) == t \div 288
\* now.minute // 5
BucketOf(t) == t % 12

\* lines 201-221: the base traffic before the jitter
BaseTraffic(areas, area_id, hour, weekday) ==
  LET i == Lookup(areas, area_id)
      \* AREAS.get(area_id, AREAS["jeonju-hanok"])
      area_info == IF i # 0 THEN areas[i] ELSE areas[Lookup(areas, "jeonju-hanok")]
      popularity == area_info.base_popularity
      by_hour == IF 10 <= hour /\ hour < 12 THEN 4000
                 ELSE IF 12 <= hour /\ hour < 14 THEN 6000
                 ELSE IF 14 <= hour /\ hour < 18 THEN 7000
                 ELSE IF 18 <= hour /\ hour < 20 THEN 5000
                 ELSE 2000
      weighted == (by_hour * popularity) \div Scale
  IN  IF weekday >= 5 THEN Min(Scale, (weighted * 13) \div 10) ELSE weighted

\* line 225
TrafficIndex(base_traffic, u) == Clamp01(base_traffic + Uniform(-1000, 1000, u))

\* line 228
ParkingPressure(traffic_index, u) ==
  Clamp01((traffic_index * 9) \div 10 + Uniform(0, 1500, u))

\* line 224: area_id + str(hour) + str(now.minute // 5), the value hashed
SeedKey(area_id, t) == area_id \o ToString(HourOf(t)) \o ToString(BucketOf(t))

-----------------------------------------------------------------------------
(* The module-level generator of `random` *)

\* state after random.seed() and at import: seeded from OS entropy
Unseeded == [mode |-> "entropy", key |-> "", pos |-> 0]

\* random.seed() written where random.seed(hash(..)) is meant
SeedIgnoringKey(key) == Unseeded

\* state after random.seed(hash(key)): a function of the key alone (within one
\* process hash() is a fixed function, taken here to be free of collisions)
Seeded(key) == [mode |-> "seeded", key |-> key, pos |-> 0]

\* the values of random() the request model follows: its least and greatest
Extremes == {0, NoiseSteps}

\* the values random() may return in state g: whatever the seed fixed before,
\* any value the first time a seed's stream is read, any value when unseeded
Draws(g, m) ==
  IF g.mode = "seeded" /\ <<g.key, g.pos>> \in DOMAIN m
  THEN {m[<<g.key, g.pos>>]}
  ELSE Extremes

\* the generator after one random()
Advance(g) == IF g.mode = "seeded" THEN [g EXCEPT !.pos = g.pos + 1] ELSE g

\* the record of what a seed's stream holds, after random() returned u
Remember(g, m, u) ==
  IF g.mode = "seeded" /\ <<g.key, g.pos>> \notin DOMAIN m
  THEN m @@ (<<g.key, g.pos>> :> u)
  ELSE m

-----------------------------------------------------------------------------
(* get_areas, app.py 423-450 *)

UpperCase == {"A", "B", "C", "D", "E", "F", "G", "H", "I", "J", "K", "L", "M",
              "N", "O", "P", "Q", "R", "S", "T", "U", "V", "W", "X", "Y", "Z"}

LowerOf ==
  [c \in UpperCase |->
     CASE c = "A" -> "a" [] c = "B" -> "b" [] c = "C" -> "c" [] c = "D" -> "d"
       [] c = "E" -> "e" [] c = "F" -> "f" [] c = "G" -> "g" [] c = "H" -> "h"
       [] c = "I" -> "i" [] c = "J" -> "j" [] c = "K" -> "k" [] c = "L" -> "l"
       [] c = "M" -> "m" [] c = "N" -> "n" [] c = "O" -> "o" [] c = "P" -> "p"
       [] c = "Q" -> "q" [] c = "R" -> "r" [] c = "S" -> "s" [] c = "T" -> "t"
       [] c = "U" -> "u" [] c = "V" -> "v" [] c = "W" -> "w" [] c = "X" -> "x"
       [] c = "Y" -> "y" [] c = "Z" -> "z"]

\* str.lower(): cased letters to lower case, every other character kept
Lower(s) == [i \in 1..Len(s) |-> IF s[i] \in UpperCase THEN LowerOf[s[i]] ELSE s[i]]

\* Python's `sub in s`
Contains(sub, s) ==
  \E k \in 0..(Len(s) - Len(sub)) :
    \A i \in 1..Len(sub) : s[k + i] = sub[i]

\* the search term compared as typed: search.lower() left out
get_areas_case_sensitive(areas, search) ==
  LET hit(area) == \/ Contains(search, Lower(area.name))
                   \/ Contains(search, area.name_kr)
                   \/ Contains(search, area.region)
                   \/ Contains(search, area.category)
      areas_list == IF search # <<>> THEN SelectSeq(areas, hit) ELSE areas
  IN  [total |-> Len(areas_list), areas |-> areas_list]

\* search: the term as a character sequence, <<>> when absent or empty
get_areas(areas, search) ==
  LET search_lower == Lower(search)
      hit(area) == \/ Contains(search_lower, Lower(area.name))
                   \/ Contains(search_lower, area.name_kr)
                   \/ Contains(search_lower, area.region)
                   \/ Contains(search_lower, area.category)
      areas_list == IF search # <<>> THEN SelectSeq(areas, hit) ELSE areas
  IN  [total |-> Len(areas_list), areas |-> areas_list]

-----------------------------------------------------------------------------
(* get_status, app.py 386-396: from the current pair to scores and levels *)

Assess(traffic_index_now, parking_pressure_now, traffic_index_30m, parking_30m) ==
  LET difficulty_now == score_difficulty(traffic_index_now, parking_pressure_now)
      difficulty_30m == score_difficulty(traffic_index_30m, parking_30m)
  IN  [traffic_index_now |-> traffic_index_now,
       traffic_index_forecast_30m |-> traffic_index_30m,
       parking_pressure_now |-> parking_pressure_now,
       difficulty_now_0_100 |-> difficulty_now,
       difficulty_30m_0_100 |-> difficulty_30m,
       level_now |-> level_from_score(difficulty_now),
       level_30m |-> level_from_score(difficulty_30m)]

-----------------------------------------------------------------------------
(* Initial state: the process has started, no request has arrived *)

Req == 1..NReq

\* instants the process may start at: just before an hour or day boundary,
\* on a weekday and on the weekend
StartInstants ==
  { 4 * 288 + 10 * 12 + 11,    \* Friday 10:55
    5 * 288 + 16 * 12 + 10,    \* Saturday 16:50
    6 * 288 + 23 * 12 + 11 }   \* Sunday 23:55

NoLocals == [area |-> "", now |-> 0, feat_now |-> 0, fc_now |-> 0,
             base_traffic |-> 0, traffic_index |-> 0, parking_pressure |-> 0,
             traffic_index_30m |-> 0, parking_30m |-> 0]

NoResponse == [kind |-> "none"]

NoProbe == [fn |-> "none", args |-> <<>>, out |-> 0]

Init ==
  /\ AREAS = Catalog
  /\ clock \in StartInstants
  /\ ticks = 0
  /\ rng = Unseeded
  /\ memo = <<>>
  /\ seeder = 0
  /\ running = 0
  /\ pc = [r \in Req |-> "idle"]
  /\ loc = [r \in Req |-> NoLocals]
  /\ resp = [r \in Req |-> NoResponse]
  /\ returned = EmptyBag
  /\ served = 0
  /\ probe = NoProbe

-----------------------------------------------------------------------------
(* Direct calls of the pure functions, one per run, over their whole input
   domain *)

TermAlphabet == {"J", "j", "E", "e", "o", "N", " ", "U+C804", "U+C8FC", "z"}

RECURSIVE TermsOfLen(_)
TermsOfLen(n) ==
  IF n = 0 THEN {<<>>}
  ELSE { Append(s, c) : s \in TermsOfLen(n - 1), c \in TermAlphabet }

Terms == UNION { TermsOfLen(n) : n \in 0..MaxTermLen }

Others == <<AREAS, clock, ticks, rng, memo, seeder, running, pc, loc, resp, returned, served>>

CallScore ==
  /\ probe = NoProbe
  /\ \E t \in GridVals, p \in GridVals :
       probe' = [fn |-> "score_difficulty", args |-> <<t, p>>,
                 out |-> score_difficulty(t, p)]
  /\ UNCHANGED Others

CallLevel ==
  /\ probe = NoProbe
  /\ \E s \in 0..100 :
       probe' = [fn |-> "level_from_score", args |-> <<s>>,
                 out |-> level_from_score(s)]
  /\ UNCHANGED Others

CallForecast ==
  /\ probe = NoProbe
  /\ \E t \in GridVals, h \in Hours, u \in Units :
       probe' = [fn |-> "forecast_30min", args |-> <<t, h, u>>,
                 out |-> forecast_30min(t, h, u)]
  /\ UNCHANGED Others

CallParking30m ==
  /\ probe = NoProbe
  /\ \E p \in GridVals, u \in Units :
       probe' = [fn |-> "parking_pressure_30m", args |-> <<p, u>>,
                 out |-> parking_pressure_30m(p, u)]
  /\ UNCHANGED Others

\* lines 387-396 for any current pair, hour and pair of draws
CallAssess ==
  /\ probe = NoProbe
  /\ \E t \in GridVals, p \in GridVals, h \in Hours, uf \in Units, up \in Units :
       probe' = [fn |-> "assess", args |-> <<t, p, h, uf, up>>,
                 out |-> Assess(t, p, forecast_30min(t, h, uf),
                                parking_pressure_30m(p, up))]
  /\ UNCHANGED Others

CallAreas ==
  /\ probe = NoProbe
  /\ \E term \in Terms :
       probe' = [fn |-> "get_areas", args |-> term, out |-> get_areas(AREAS, term)]
  /\ UNCHANGED Others

NextFn == CallScore \/ CallLevel \/ CallForecast \/ CallParking30m \/ CallAssess

SpecFn == Init /\ [][NextFn]_vars

NextAreas == CallAreas

SpecAreas == Init /\ [][NextAreas]_vars

-----------------------------------------------------------------------------
(* GET /api/status: get_status, app.py 350-420, one action per step *)

\* the ids requests ask for: two of the catalog, one unknown
RequestAreas == {"jeonju-hanok", "jeonbuk-sunchang", "nowhere"}

\* handlers run as threads: any request may take a step at any time
CanRunThreaded(r) == TRUE

\* get_status is `async def` and never awaits: once the event loop has started
\* a request's handler, no other handler runs until that one returns
CanRun(r) == running \in {0, r}

Step(r, from, to) ==
  /\ pc[r] = from
  /\ CanRun(r)
  /\ pc' = [pc EXCEPT ![r] = to]

\* a request is received and its handler is scheduled on the event loop; it
\* takes the first free slot
Arrive(r) ==
  /\ pc[r] = "idle"
  /\ \A s \in 1..(r - 1) : pc[s] # "idle"
  /\ served < MaxRequests
  /\ \E area \in RequestAreas :
       loc' = [loc EXCEPT ![r] = [NoLocals EXCEPT !.area = area]]
  /\ pc' = [pc EXCEPT ![r] = "lookup"]
  /\ served' = served + 1
  /\ UNCHANGED <<AREAS, clock, ticks, rng, memo, seeder, running, resp, returned,
                 probe>>

\* lines 373-378: area_info = AREAS.get(area); the error payload when absent
StatusLookup(r) ==
  /\ pc[r] = "lookup"
  /\ CanRun(r)
  /\ IF Lookup(AREAS, loc[r].area) = 0
     THEN /\ resp' = [resp EXCEPT ![r] =
                        [kind |-> "error",
                         error |-> "area not found",
                         available_areas |-> AreaIds(AREAS)]]
          /\ pc' = [pc EXCEPT ![r] = "done"]
     ELSE /\ pc' = [pc EXCEPT ![r] = "now"]
          /\ UNCHANGED resp
  /\ running' = r
  /\ UNCHANGED <<AREAS, clock, ticks, rng, memo, seeder, loc, returned, served, probe>>

\* line 381: now = datetime.now(KST)
StatusNow(r) ==
  /\ Step(r, "now", "features")
  /\ loc' = [loc EXCEPT ![r].now = clock]
  /\ UNCHANGED <<AREAS, clock, ticks, rng, memo, seeder, running, resp, returned,
                 served, probe>>

\* lines 196-221: get_realtime_features reads the clock, computes base_traffic
FeaturesBase(r) ==
  /\ Step(r, "features", "seed")
  /\ loc' = [loc EXCEPT ![r].feat_now = clock,
                        ![r].base_traffic =
                           BaseTraffic(AREAS, loc[r].area, HourOf(clock),
                                       WeekdayOf(clock))]
  /\ UNCHANGED <<AREAS, clock, ticks, rng, memo, seeder, running, resp, returned,
                 served, probe>>

\* line 224: random.seed(hash(area_id + str(hour) + str(now.minute // 5)))
FeaturesSeed(r) ==
  /\ Step(r, "seed", "draw_traffic")
  /\ rng' = Seeded(SeedKey(loc[r].area, loc[r].feat_now))
  /\ seeder' = r
  /\ UNCHANGED <<AREAS, clock, ticks, memo, running, loc, resp, returned, served,
                 probe>>

\* line 225: traffic_index from the first draw
FeaturesTraffic(r) ==
  /\ Step(r, "draw_traffic", "draw_parking")
  /\ \E u \in Draws(rng, memo) :
       /\ memo' = Remember(rng, memo, u)
       /\ loc' = [loc EXCEPT ![r].traffic_index =
                               TrafficIndex(loc[r].base_traffic, u)]
  /\ rng' = Advance(rng)
  /\ UNCHANGED <<AREAS, clock, ticks, seeder, running, resp, returned, served,
                 probe>>

\* line 228: parking_pressure from the second draw
FeaturesParking(r) ==
  /\ Step(r, "draw_parking", "reseed")
  /\ \E u \in Draws(rng, memo) :
       /\ memo' = Remember(rng, memo, u)
       /\ loc' = [loc EXCEPT ![r].parking_pressure =
                               ParkingPressure(loc[r].traffic_index, u)]
  /\ rng' = Advance(rng)
  /\ UNCHANGED <<AREAS, clock, ticks, seeder, running, resp, returned, served,
                 probe>>

\* lines 231-233: random.seed(), then the pair is returned
FeaturesReturn(r) ==
  /\ Step(r, "reseed", "forecast")
  /\ rng' = Unseeded
  /\ seeder' = 0
  /\ returned' = returned (+)
       SetToBag({[area |-> loc[r].area,
                  at |-> loc[r].feat_now,
                  pair |-> <<loc[r].traffic_index, loc[r].parking_pressure>>]})
  /\ UNCHANGED <<AREAS, clock, ticks, memo, running, loc, resp, served, probe>>

\* line 387: forecast_30min reads the clock itself (250-251) and draws (264)
StatusForecast(r) ==
  /\ Step(r, "forecast", "parking_30m")
  /\ \E u \in Draws(rng, memo) :
       /\ memo' = Remember(rng, memo, u)
       /\ loc' = [loc EXCEPT ![r].fc_now = clock,
                             ![r].traffic_index_30m =
                                forecast_30min(loc[r].traffic_index,
                                               HourOf(clock), u)]
  /\ rng' = Advance(rng)
  /\ UNCHANGED <<AREAS, clock, ticks, seeder, running, resp, returned, served,
                 probe>>

\* line 388: parking_pressure_now * 0.9 + random.uniform(0, 0.1)
StatusParking30m(r) ==
  /\ Step(r, "parking_30m", "respond")
  /\ \E u \in Draws(rng, memo) :
       /\ memo' = Remember(rng, memo, u)
       /\ loc' = [loc EXCEPT ![r].parking_30m =
                               parking_pressure_30m(loc[r].parking_pressure, u)]
  /\ rng' = Advance(rng)
  /\ UNCHANGED <<AREAS, clock, ticks, seeder, running, resp, returned, served,
                 probe>>

\* lines 390-420: scores, levels and the response payload
StatusRespond(r) ==
  /\ Step(r, "respond", "done")
  /\ resp' = [resp EXCEPT ![r] =
                [kind |-> "ok",
                 area_id |-> AREAS[Lookup(AREAS, loc[r].area)].id,
                 now_kst |-> loc[r].now,
                 body |-> Assess(loc[r].traffic_index, loc[r].parking_pressure,
                                 loc[r].traffic_index_30m, loc[r].parking_30m)]]
  /\ UNCHANGED <<AREAS, clock, ticks, rng, memo, seeder, running, loc, returned,
                 served, probe>>

\* the handler returns and its payload is written to the client before the
\* event loop runs another handler; the slot takes the next request
Deliver(r) ==
  /\ pc[r] = "done"
  /\ CanRun(r)
  /\ pc' = [pc EXCEPT ![r] = "idle"]
  /\ running' = 0
  /\ loc' = [loc EXCEPT ![r] = NoLocals]
  /\ resp' = [resp EXCEPT ![r] = NoResponse]
  /\ UNCHANGED <<AREAS, clock, ticks, rng, memo, seeder, returned, served, probe>>

\* the wall clock crosses a 5-minute boundary, whatever the handlers are doing
Tick ==
  /\ ticks < MaxTicks
  /\ clock' = clock + 1
  /\ ticks' = ticks + 1
  /\ UNCHANGED <<AREAS, rng, memo, seeder, running, pc, loc, resp, returned,
                 served, probe>>

get_status(r) ==
  \/ StatusLookup(r)
  \/ StatusNow(r)
  \/ FeaturesBase(r)
  \/ FeaturesSeed(r)
  \/ FeaturesTraffic(r)
  \/ FeaturesParking(r)
  \/ FeaturesReturn(r)
  \/ StatusForecast(r)
  \/ StatusParking30m(r)
  \/ StatusRespond(r)

Next ==
  \/ \E r \in Req : Arrive(r)
  \/ \E r \in Req : get_status(r)
  \/ \E r \in Req : Deliver(r)
  \/ Tick

Spec == Init /\ [][Next]_vars

-----------------------------------------------------------------------------
(* Claims about /api/status (Spec) *)

SameBucket(t1, t2) ==
  /\ DayOf(t1) = DayOf(t2)
  /\ HourOf(t1) = HourOf(t2)
  /\ BucketOf(t1) = BucketOf(t2)

\* C1: two calls of get_realtime_features for the same area at instants of the
\* same day, KST hour and 5-minute bucket return the same
\* (traffic_index, parking_pressure), whatever was drawn or reseeded between.
C1_SameBucketSamePair ==
  \A a, b \in BagToSet(returned) :
    (a.area = b.area /\ SameBucket(a.at, b.at)) => a.pair = b.pair

\* two calls in one bucket for one area
C1_Witness ==
  \E a \in BagToSet(returned) : CopiesIn(a, returned) >= 2

OutsideDraws == {"forecast", "parking_30m"}
SeededDraws == {"draw_traffic", "draw_parking"}

\* C2: every draw outside the two of get_realtime_features is made while the
\* generator is unseeded, and between one request's seed step and its restore
\* step no other request draws.
C2_SeedNeverLeaks ==
  [][\A r \in Req :
       pc'[r] # pc[r] =>
         /\ pc[r] \in OutsideDraws => rng.mode = "entropy"
         /\ pc[r] \in (OutsideDraws \cup SeededDraws) => seeder \in {0, r}]_vars

\* a request is past its seeded section and about to draw the parking noise
\* while another request is waiting to be handled
C2_Witness ==
  \E r, s \in Req :
    /\ r # s
    /\ pc[r] = "parking_30m"
    /\ pc[s] = "lookup"
    /\ rng.mode = "entropy"
    /\ \E c \in BagToSet(returned) : c.area = loc[r].area

IsCatalogId(area) == \E i \in 1..Len(AREAS) : AREAS[i].id = area

\* C7: a request for an area that is no catalog id returns the error payload
\* with every catalog id exactly once, without generating features: the
\* generator and the catalog are left as they were; a request for a catalog id
\* never returns the error payload.
C7_UnknownArea ==
  /\ [](\A r \in Req :
          pc[r] = "done" =>
            IF IsCatalogId(loc[r].area)
            THEN resp[r].kind = "ok"
            ELSE /\ resp[r].kind = "error"
                 /\ LET ids == resp[r].available_areas
                    IN  /\ \A i \in 1..Len(AREAS) :
                             Cardinality({j \in 1..Len(ids) : ids[j] = AREAS[i].id}) = 1
                        /\ Len(ids) = Len(AREAS))
  /\ [][\A r \in Req :
          (pc[r] = "lookup" /\ pc'[r] # "lookup" /\ ~IsCatalogId(loc[r].area)) =>
            /\ pc'[r] = "done"
            /\ rng' = rng
            /\ memo' = memo
            /\ returned' = returned
            /\ AREAS' = AREAS]_vars

C7_Witness ==
  \E r \in Req :
    /\ pc[r] = "done"
    /\ loc[r].area = "nowhere"
    /\ resp[r].kind = "error"
    /\ Len(resp[r].available_areas) = 14

\* C10: within one request the instant used by get_realtime_features, the
\* instant used by forecast_30min and the now_kst of the response are one
\* clock reading, also when the wall clock advances during the request.
C10_OneInstant ==
  \A r \in Req :
    (pc[r] = "done" /\ resp[r].kind = "ok") =>
      /\ loc[r].feat_now = resp[r].now_kst
      /\ loc[r].fc_now = resp[r].now_kst

-----------------------------------------------------------------------------
(* Claims about the pure functions (SpecFn, SpecAreas) *)

\* C3: level_from_score maps every integer score in 0..100 to exactly one of
\* the four levels, each tier's lower bound inclusive: 0..29 EASY,
\* 30..54 MODERATE, 55..74 HARD, 75..100 VERY_HARD.
C3_LevelPartition ==
  probe.fn = "level_from_score" =>
    LET s == probe.args[1]
    IN  /\ probe.out \in Levels
        /\ (probe.out = "EASY") = (s \in 0..29)
        /\ (probe.out = "MODERATE") = (s \in 30..54)
        /\ (probe.out = "HARD") = (s \in 55..74)
        /\ (probe.out = "VERY_HARD") = (s \in 75..100)

C3_Witness ==
  /\ probe.fn = "level_from_score"
  /\ probe.args = <<30>>
  /\ probe.out = "MODERATE"

\* C4: for all traffic_index, parking_pressure in [0,1] score_difficulty is an
\* integer in [0,100], the extremes (0,0) and (1,1) included; so are both
\* difficulty fields get_status derives from a pair in [0,1].
C4_ScoreInRange ==
  /\ probe.fn = "score_difficulty" => probe.out \in 0..100
  /\ probe.fn = "assess" =>
       /\ probe.out.difficulty_now_0_100 \in 0..100
       /\ probe.out.difficulty_30m_0_100 \in 0..100

C4_Witness ==
  /\ probe.fn = "assess"
  /\ probe.args[1] = Scale
  /\ probe.args[2] = Scale
  /\ probe.out.difficulty_now_0_100 > 90
  /\ probe.out.difficulty_30m_0_100 > 90

\* C5: score_difficulty never decreases when traffic_index is raised with
\* parking_pressure fixed, nor when parking_pressure is raised with
\* traffic_index fixed, the rounding included.
C5_ScoreMonotonic ==
  probe.fn = "score_difficulty" =>
    LET t == probe.args[1]
        p == probe.args[2]
    IN  /\ \A t2 \in GridVals : t2 >= t => score_difficulty(t2, p) >= probe.out
        /\ \A p2 \in GridVals : p2 >= p => score_difficulty(t, p2) >= probe.out

C5_Witness ==
  /\ probe.fn = "score_difficulty"
  /\ probe.args = <<Scale \div 2, Scale \div 2>>
  /\ probe.out = 50
  /\ score_difficulty(Scale, Scale \div 2) > probe.out
  /\ score_difficulty(Scale \div 2, Scale) > probe.out

\* C6: for every current traffic index in [0,1], every hour 0..23 and every
\* noise value of its range, forecast_30min returns a value in [0,1].
C6_ForecastInRange ==
  probe.fn = "forecast_30min" => (0 <= probe.out /\ probe.out <= Scale)

\* the sum exceeds 1.0 and the clamp brings it back
C6_Witness ==
  /\ probe.fn = "forecast_30min"
  /\ probe.args = <<Scale, 11, NoiseSteps>>
  /\ forecast_30min_unclamped(Scale, 11, NoiseSteps) > Scale
  /\ probe.out = Scale

\* C8: for every current parking pressure in [0,1] and every noise value in
\* [0, 0.1], the value current * 0.9 + noise that get_status scores for the
\* forecast lies in [0,1].
C8_Parking30mInRange ==
  probe.fn = "parking_pressure_30m" => (0 <= probe.out /\ probe.out <= Scale)

C8_Witness ==
  /\ probe.fn = "parking_pressure_30m"
  /\ probe.args = <<Scale, NoiseSteps>>
  /\ probe.out = Scale

\* the term, compared case-insensitively, is a substring of one of the four
\* text fields of the entry
MatchesAnyField(term, area) ==
  \E f \in {area.name, area.name_kr, area.region, area.category} :
    Contains(Lower(term), Lower(f))

\* C9: for every non-empty search term get_areas returns exactly the catalog
\* entries some text field of which contains the term case-insensitively, in
\* catalog order, none repeated, and total is the number of entries returned.
C9_SearchExact ==
  (probe.fn = "get_areas" /\ probe.args # <<>>) =>
    LET term == probe.args
        match(area) == MatchesAnyField(term, area)
        got == probe.out.areas
    IN  /\ got = SelectSeq(AREAS, match)
        /\ \A i, j \in 1..Len(got) : i # j => got[i] # got[j]
        /\ probe.out.total = Len(got)

\* an upper-case term finds the entries whose name holds it in lower case
C9_Witness ==
  /\ probe.fn = "get_areas"
  /\ probe.args = <<"J", "E">>
  /\ probe.out.total > 0
  /\ probe.out.total < Len(AREAS)

=============================================================================
